---- MODULE Spec2Model ----
(***************************************************************************)
(* minilog-zero: a console logger with level filtering, child loggers and  *)
(* safe serialization of arguments.  The model follows src/index.ts (kept  *)
(* in src/unnamed/part_003, lines 1-257).                                   *)
(*                                                                         *)
(* Text is modelled as a sequence of tokens (short strings); concatenation *)
(* of text is sequence concatenation, and "text contains s" is "some token *)
(* of the text is s".                                                       *)
(***************************************************************************)
EXTENDS Integers, Sequences, FiniteSets, TLC

VARIABLES
  loggers,   \* loggers[i]: the closure variables of the i-th logger created
  last,      \* the most recent call: its receiver, inputs and result
  console    \* the console writes performed by the most recent call

vars == <<loggers, last, console>>

(***************************************************************************)
(* Bounds of the model.                                                     *)
(***************************************************************************)
MaxLoggers == 2   \* loggers alive at once, the default logger included
MaxArgs == 2      \* arguments of one emit call

(***************************************************************************)
(* The module's tables.                                                     *)
(***************************************************************************)
COLORS ==
  [reset |-> "ESC[0m", gray |-> "ESC[90m", cyan |-> "ESC[36m",
   yellow |-> "ESC[33m", red |-> "ESC[31m", green |-> "ESC[32m"]

LEVELS == [debug |-> 0, info |-> 1, warn |-> 2, error |-> 3, success |-> 3]

\* Object.keys(LEVELS): the own keys, in insertion order.
LEVEL_KEYS == <<"debug", "info", "warn", "error", "success">>

LogLevel == {LEVEL_KEYS[i] : i \in 1..Len(LEVEL_KEYS)}

ICONS ==
  [debug |-> "icon:magnifier", info |-> "icon:information",
   warn |-> "icon:warning", error |-> "icon:cross", success |-> "icon:check"]

LEVEL_COLORS ==
  [debug |-> COLORS.gray, info |-> COLORS.cyan, warn |-> COLORS.yellow,
   error |-> COLORS.red, success |-> COLORS.green]

\* level.toUpperCase() for the five severities.
toUpperCase ==
  [debug |-> "DEBUG", info |-> "INFO", warn |-> "WARN", error |-> "ERROR",
   success |-> "SUCCESS"]

\* LEVELS is an object literal: besides its own keys, `key in LEVELS` is true
\* for every property inherited from Object.prototype.
ObjectPrototypeKeys ==
  {"constructor", "toString", "valueOf", "hasOwnProperty", "__proto__"}

\* The JavaScript `in` operator applied to LEVELS.
InLEVELS(key) == key \in LogLevel \cup ObjectPrototypeKeys

(***************************************************************************)
(* LoggerOptions.  Every field is optional; a field of an options object is *)
(* absent, present with the value undefined or null, or present with        *)
(* another value.                                                           *)
(***************************************************************************)
Absent(d) == [tag |-> "absent", v |-> d]
Undefined(d) == [tag |-> "undefined", v |-> d]
NullValue(d) == [tag |-> "null", v |-> d]
Some(x) == [tag |-> "value", v |-> x]

\* a ?? b for an option field a whose default is b
Nullish(field, default) == IF field.tag = "value" THEN field.v ELSE default

NoOptions ==
  [prefix |-> Absent(""), timestamp |-> Absent(FALSE), level |-> Absent(""),
   icons |-> Absent(FALSE)]

(***************************************************************************)
(* JavaScript values passed as log arguments.  A value is a primitive or a  *)
(* reference (by identity) to an object of HEAP.  text is the token         *)
(* sequence of a string's characters, or of the decimal digits of a number  *)
(* or big integer.                                                          *)
(***************************************************************************)
Str(t) == [kind |-> "string", text |-> t, id |-> 0]
Num(d) == [kind |-> "number", text |-> <<d>>, id |-> 0]
BigInt(d) == [kind |-> "bigint", text |-> <<d>>, id |-> 0]
Bool(b) == [kind |-> "boolean", text |-> <<b>>, id |-> 0]
Null == [kind |-> "null", text |-> <<>>, id |-> 0]
Undef == [kind |-> "undefined", text |-> <<>>, id |-> 0]
Ref(i) == [kind |-> "object", text |-> <<>>, id |-> i]

\* An object: props are its own enumerable properties in enumeration order
\* (for an Array, its elements); items are the entries of a Map or the
\* members of a Set; name, message, stack belong to an Error (stack <<>> is
\* the absent stack); text is the source/flags text of a RegExp or the ISO
\* text of a Date; valid tells a Date with a time value from an invalid one;
\* toJSONThrows marks a plain object whose toJSON method throws.
Obj(class, props) ==
  [class |-> class, props |-> props, items |-> <<>>, name |-> <<>>,
   message |-> <<>>, stack |-> <<>>, text |-> <<>>, valid |-> TRUE,
   toJSONThrows |-> FALSE]

P(k, v) == [key |-> k, val |-> v]

ErrorObj(message, stack, props) ==
  [Obj("Error", props) EXCEPT !.name = <<"Error">>, !.message = message,
                              !.stack = stack]

\* The objects the callers have built.
HEAP ==
  <<
    \* 1: const obj = {name: 'test'}; obj.self = obj
    Obj("Object", <<P("name", Str(<<"test">>)), P("self", Ref(1))>>),
    \* 2: {a: x, b: x} with x the object 3: shared, not cyclic
    Obj("Object", <<P("a", Ref(3)), P("b", Ref(3))>>),
    \* 3: {key: 'value'}
    Obj("Object", <<P("key", Str(<<"value">>))>>),
    \* 4: const arr = [1]; arr.push(arr)
    Obj("Array", <<P("0", Num("1")), P("1", Ref(4))>>),
    \* 5, 6: a cycle through a nested array: {child: [ <5> ]}
    Obj("Object", <<P("child", Ref(6))>>),
    Obj("Array", <<P("0", Ref(5))>>),
    \* 7: {inner: <5>}: the cycle does not pass through the root
    Obj("Object", <<P("inner", Ref(5))>>),
    \* 8: {big: 1n, n: 123, u: undefined, d: <valid Date>}
    Obj("Object", <<P("big", BigInt("1")), P("n", Num("123")),
                    P("u", Undef), P("d", Ref(17))>>),
    \* 9: an Error with message 'boom' and err.code = 'E1'
    ErrorObj(<<"boom">>, <<"Error: boom at <anonymous>">>,
             <<P("code", Str(<<"E1">>))>>),
    \* 10: an Error holding itself: err.self = err
    ErrorObj(<<"loop">>, <<"Error: loop at <anonymous>">>,
             <<P("self", Ref(10))>>),
    \* 11: an Error without stack holding a big integer
    ErrorObj(<<"big">>, <<>>, <<P("count", BigInt("7"))>>),
    \* 12: new Map([['key', 'value']])
    [Obj("Map", <<>>) EXCEPT !.items = <<P("key", Str(<<"value">>))>>],
    \* 13: new Map([['n', 5n]])
    [Obj("Map", <<>>) EXCEPT !.items = <<P("n", BigInt("5"))>>],
    \* 14: new Set([1, 2, 3])
    [Obj("Set", <<>>) EXCEPT
       !.items = <<P("0", Num("1")), P("1", Num("2")), P("2", Num("3"))>>],
    \* 15: a Set whose member is the circular object 1
    [Obj("Set", <<>>) EXCEPT !.items = <<P("0", Ref(1))>>],
    \* 16: /test[a-z]+/gi
    [Obj("RegExp", <<>>) EXCEPT !.text = <<"/", "test[a-z]+", "/", "gi">>],
    \* 17: new Date('2024-01-15T10:30:00.000Z')
    [Obj("Date", <<>>) EXCEPT !.text = <<"2024-01-15", "T10:30:00.000Z">>],
    \* 18: new Date(NaN)
    [Obj("Date", <<>>) EXCEPT !.text = <<"Invalid Date">>, !.valid = FALSE],
    \* 19: {}
    Obj("Object", <<>>),
    \* 20: { toJSON() { throw new Error() } }
    [Obj("Object", <<>>) EXCEPT !.toJSONThrows = TRUE],
    \* 21: an Error whose stack was removed, without custom properties
    ErrorObj(<<"bare">>, <<>>, <<>>)
  >>

ObjectIds == 1..Len(HEAP)

(***************************************************************************)
(* JSON.stringify(value, replacer, 2), as the ECMAScript algorithm defines  *)
(* it.  A result is [t: the text, seen: the replacer's WeakSet afterwards,  *)
(* err: a TypeError was thrown, und: the result is undefined].              *)
(***************************************************************************)
Indent(depth) == [i \in 1..depth |-> "  "]

Quote(t) == <<"\"">> \o t \o <<"\"">>

Done(t, seen) == [t |-> t, seen |-> seen, err |-> FALSE, und |-> FALSE]
Threw(seen) == [t |-> <<>>, seen |-> seen, err |-> TRUE, und |-> FALSE]
Omitted(seen) == [t |-> <<>>, seen |-> seen, err |-> FALSE, und |-> TRUE]

\* Date.prototype.toJSON: the ISO text, or null for an invalid date.  Other
\* classes of HEAP have no toJSON method.
toJSON(val) ==
  IF val.kind = "object" /\ HEAP[val.id].class = "Date"
  THEN IF HEAP[val.id].valid THEN Str(HEAP[val.id].text) ELSE Null
  ELSE val

\* Replacer whose WeakSet holds only the object added last.
ReplacerRemembersLast(val, seen) ==
  IF val.kind = "bigint"
  THEN [v |-> Str(val.text \o <<"n">>), seen |-> seen]
  ELSE IF val.kind = "object"
       THEN IF val.id \in seen
            THEN [v |-> Str(<<"[Circular]">>), seen |-> seen]
            ELSE [v |-> val, seen |-> {val.id}]
       ELSE [v |-> val, seen |-> seen]

\* Replacer without the WeakSet test: every object is passed on.
ReplacerWithoutSeen(val, seen) ==
  IF val.kind = "bigint"
  THEN [v |-> Str(val.text \o <<"n">>), seen |-> seen]
  ELSE [v |-> val, seen |-> seen]

\* The replacer function of safeStringify, with its WeakSet seen.
Replacer(val, seen) ==
  IF val.kind = "bigint"
  THEN [v |-> Str(val.text \o <<"n">>), seen |-> seen]
  ELSE IF val.kind = "object"
       THEN IF val.id \in seen
            THEN [v |-> Str(<<"[Circular]">>), seen |-> seen]
            ELSE [v |-> val, seen |-> seen \cup {val.id}]
       ELSE [v |-> val, seen |-> seen]

RECURSIVE SerializeJSONProperty(_, _, _, _, _)
RECURSIVE SerializeMembers(_, _, _, _, _, _, _)

\* The text of an object or array whose members serialized to m.
Wrap(m, isArray, depth) ==
  IF m.err THEN Threw(m.seen)
  ELSE IF m.t = <<>>
       THEN Done(IF isArray THEN <<"[", "]">> ELSE <<"{", "}">>, m.seen)
       ELSE Done(<<IF isArray THEN "[" ELSE "{", "\n">> \o m.t \o <<"\n">>
                 \o Indent(depth) \o <<IF isArray THEN "]" ELSE "}">>, m.seen)

\* SerializeJSONObject / SerializeJSONArray for the properties props of an
\* object that is already on the stack.
SerializeJSONObject(props, isArray, seen, stack, depth, guarded) ==
  Wrap(SerializeMembers(props, 1, seen, stack, depth + 1, guarded, isArray),
       isArray, depth)

\* The member for key, whose value serialized to r, followed by the members
\* rest.  An undefined value is dropped from an object and null in an array.
Member(key, r, rest, depth, isArray) ==
  IF rest.err THEN Threw(rest.seen)
  ELSE IF r.und /\ ~isArray THEN rest
  ELSE Done((IF isArray
             THEN Indent(depth) \o (IF r.und THEN <<"null">> ELSE r.t)
             ELSE Indent(depth) \o Quote(<<key>>) \o <<": ">> \o r.t)
            \o (IF rest.t = <<>> THEN <<>> ELSE <<",", "\n">> \o rest.t),
            rest.seen)

MembersFrom(props, i, r, stack, depth, guarded, isArray) ==
  IF r.err THEN Threw(r.seen)
  ELSE Member(props[i].key, r,
              SerializeMembers(props, i + 1, r.seen, stack, depth, guarded,
                               isArray),
              depth, isArray)

SerializeMembers(props, i, seen, stack, depth, guarded, isArray) ==
  IF i > Len(props) THEN Done(<<>>, seen)
  ELSE MembersFrom(props, i,
                   SerializeJSONProperty(props[i].val, seen, stack, depth,
                                         guarded),
                   stack, depth, guarded, isArray)

\* The text of the value r.v the replacer returned.
SerializeValue(r, stack, depth, guarded) ==
  CASE r.v.kind = "null" -> Done(<<"null">>, r.seen)
    [] r.v.kind = "boolean" -> Done(r.v.text, r.seen)
    [] r.v.kind = "number" -> Done(r.v.text, r.seen)
    [] r.v.kind = "string" -> Done(Quote(r.v.text), r.seen)
    [] r.v.kind = "undefined" -> Omitted(r.seen)
    [] r.v.kind = "bigint" -> Threw(r.seen)
    [] r.v.kind = "object" ->
         IF r.v.id \in stack THEN Threw(r.seen)
         ELSE SerializeJSONObject(HEAP[r.v.id].props,
                                  HEAP[r.v.id].class = "Array", r.seen,
                                  stack \cup {r.v.id}, depth, guarded)

SerializeJSONProperty(val, seen, stack, depth, guarded) ==
  IF val.kind = "object" /\ HEAP[val.id].toJSONThrows THEN Threw(seen)
  ELSE SerializeValue(IF guarded THEN Replacer(toJSON(val), seen)
                      ELSE [v |-> toJSON(val), seen |-> seen],
                      stack, depth, guarded)

\* String(value) for the values of the model.
RECURSIVE String(_, _)
RECURSIVE StringJoin(_, _, _)
StringJoin(props, i, path) ==
  IF i > Len(props) THEN <<>>
  ELSE LET e == props[i].val
           s == IF e.kind \in {"null", "undefined"} THEN <<>>
                ELSE String(e, path)
       IN IF i = Len(props) THEN s
          ELSE s \o <<",">> \o StringJoin(props, i + 1, path)

String(value, path) ==
  CASE value.kind = "null" -> <<"null">>
    [] value.kind = "undefined" -> <<"undefined">>
    [] value.kind \in {"string", "number", "boolean", "bigint"} -> value.text
    [] value.kind = "object" ->
         LET o == HEAP[value.id]
         IN CASE o.class = "Array" ->
                   IF value.id \in path THEN <<>>
                   ELSE StringJoin(o.props, 1, path \cup {value.id})
              [] o.class = "Error" -> o.name \o <<": ">> \o o.message
              [] o.class \in {"RegExp", "Date"} -> o.text
              [] o.class = "Map" -> <<"[object Map]">>
              [] o.class = "Set" -> <<"[object Set]">>
              [] OTHER -> <<"[object Object]">>

\* errorObj[key] = value: replaces the value of an existing key in place,
\* appends a new key.
AssignProp(props, key, val) ==
  IF \E i \in 1..Len(props) : props[i].key = key
  THEN [i \in 1..Len(props) |->
          IF props[i].key = key THEN P(key, val) ELSE props[i]]
  ELSE Append(props, P(key, val))

RECURSIVE AssignAll(_, _, _)
AssignAll(props, custom, i) ==
  IF i > Len(custom) THEN props
  ELSE AssignAll(AssignProp(props, custom[i].key, custom[i].val), custom, i + 1)

Returned(t) == [t |-> t, raised |-> "none"]
Raised(e) == [t |-> <<>>, raised |-> e]

\* What a call returns whose JSON.stringify ended as j: an exception of
\* JSON.stringify propagates, its text follows the head.
Stringified(head, j) ==
  IF j.err THEN Raised("TypeError") ELSE Returned(head \o j.t)

\* try { return JSON.stringify(...) } catch { return String(value) }
Guarded(value, j) ==
  IF j.err THEN Returned(String(value, {})) ELSE Returned(j.t)

\* errorObj of safeStringify for the Error o.
errorObj(o) ==
  AssignAll(<<P("name", Str(o.name)), P("message", Str(o.message))>>
            \o (IF o.stack # <<>> THEN <<P("stack", Str(o.stack))>> ELSE <<>>),
            o.props, 1)

\* safeStringify sending every object to the guarded JSON conversion.
safeStringifyObjectAsJSON(value, o) ==
  Guarded(value, SerializeJSONProperty(value, {}, {}, 0, TRUE))

\* safeStringify(value): [t: the text returned, raised: the exception thrown]
safeStringifyObject(value, o) ==
  IF o.class = "Error"
  THEN Stringified(<<>>, SerializeJSONObject(errorObj(o), FALSE, {}, {}, 0,
                                             FALSE))
  ELSE IF o.class = "Map"
  THEN Stringified(<<"Map(", ToString(Len(o.items)), ") ">>,
                   SerializeJSONObject(o.items, FALSE, {}, {}, 0, FALSE))
  ELSE IF o.class = "Set"
  THEN Stringified(<<"Set(", ToString(Len(o.items)), ") ">>,
                   SerializeJSONObject(o.items, TRUE, {}, {}, 0, FALSE))
  ELSE IF o.class = "RegExp" THEN Returned(o.text)
  ELSE IF o.class = "Date"
  THEN IF o.valid THEN Returned(o.text) ELSE Raised("RangeError")
  ELSE Guarded(value, SerializeJSONProperty(value, {}, {}, 0, TRUE))

safeStringify(value) ==
  IF value.kind = "null" THEN Returned(<<"null">>)
  ELSE IF value.kind = "undefined" THEN Returned(<<"undefined">>)
  ELSE IF value.kind = "object"
  THEN safeStringifyObject(value, HEAP[value.id])
  ELSE IF value.kind = "bigint" THEN Returned(value.text \o <<"n">>)
  ELSE Returned(String(value, {}))

\* parts.join(sep)
RECURSIVE Join(_, _)
Join(parts, sep) ==
  IF parts = <<>> THEN <<>>
  ELSE IF Len(parts) = 1 THEN parts[1]
  ELSE parts[1] \o <<sep>> \o Join(Tail(parts), sep)

\* The callback of args.map in formatArgs.
formatArg(arg) ==
  IF arg.kind = "string" THEN Returned(arg.text) ELSE safeStringify(arg)

\* formatArgs keeping one WeakSet for all arguments: an object passed again
\* is replaced by the marker.
formatArgsSharedSeen(args) ==
  IF \E k \in 1..Len(args) : formatArg(args[k]).raised # "none"
  THEN Raised("TypeError")
  ELSE Returned(Join([k \in 1..Len(args) |->
                        IF args[k].kind = "object"
                           /\ \E j \in 1..(k - 1) : args[j] = args[k]
                        THEN <<"\"", "[Circular]", "\"">>
                        ELSE formatArg(args[k]).t], " "))

\* formatArgs(args): args.map(...) converts the arguments from left to right
\* and stops at the first exception; then join(' ').
RECURSIVE MapArgs(_, _)
MapFrom(args, i, r) ==
  IF r.raised # "none" THEN [parts |-> <<>>, raised |-> r.raised]
  ELSE [parts |-> <<r.t>> \o MapArgs(args, i + 1).parts,
        raised |-> MapArgs(args, i + 1).raised]

MapArgs(args, i) ==
  IF i > Len(args) THEN [parts |-> <<>>, raised |-> "none"]
  ELSE MapFrom(args, i, formatArg(args[i]))

Joined(m) ==
  IF m.raised # "none" THEN Raised(m.raised) ELSE Returned(Join(m.parts, " "))

formatArgs(args) == Joined(MapArgs(args, 1))

\* createLogger falling back to debug for a level that is no key of LEVELS.
createLoggerValidating(options) ==
  [currentLevel |-> IF Nullish(options.level, "debug") \in LogLevel
                    THEN Nullish(options.level, "debug") ELSE "debug",
   prefix |-> Nullish(options.prefix, ""),
   showTimestamp |-> Nullish(options.timestamp, FALSE),
   showIcons |-> Nullish(options.icons, TRUE),
   create |-> "closure"]

\* createLogger whose icons default is off.
createLoggerIconsOff(options) ==
  [currentLevel |-> Nullish(options.level, "debug"),
   prefix |-> Nullish(options.prefix, ""),
   showTimestamp |-> Nullish(options.timestamp, FALSE),
   showIcons |-> Nullish(options.icons, FALSE),
   create |-> "closure"]

(***************************************************************************)
(* createLogger: the closure variables of a logger.  create names the       *)
(* function held by the logger object's create property.                    *)
(***************************************************************************)
createLogger(options) ==
  [currentLevel |-> Nullish(options.level, "debug"),
   prefix |-> Nullish(options.prefix, ""),
   showTimestamp |-> Nullish(options.timestamp, FALSE),
   showIcons |-> Nullish(options.icons, TRUE),
   create |-> "closure"]

\* const defaultLogger = createLogger(); module.exports = defaultLogger;
\* module.exports.create = createLogger: the last assignment stores the
\* factory in the create property of the default logger object itself.
defaultLogger == [createLogger(NoOptions) EXCEPT !.create = "createLogger"]

\* Spread passing over the fields of newOptions that hold undefined.
SpreadSkippingUndefined(logger, newOptions) ==
  [prefix |-> IF newOptions.prefix.tag \in {"absent", "undefined"}
              THEN Some(logger.prefix) ELSE newOptions.prefix,
   timestamp |-> IF newOptions.timestamp.tag \in {"absent", "undefined"}
                 THEN Some(logger.showTimestamp) ELSE newOptions.timestamp,
   level |-> IF newOptions.level.tag \in {"absent", "undefined"}
             THEN Some(logger.currentLevel) ELSE newOptions.level,
   icons |-> IF newOptions.icons.tag \in {"absent", "undefined"}
             THEN Some(logger.showIcons) ELSE newOptions.icons]

\* { prefix, timestamp: showTimestamp, level: currentLevel, icons: showIcons,
\*   ...newOptions }: a field present in newOptions, even with the value
\* undefined, replaces the parent's.
Spread(logger, newOptions) ==
  [prefix |-> IF newOptions.prefix.tag = "absent"
              THEN Some(logger.prefix) ELSE newOptions.prefix,
   timestamp |-> IF newOptions.timestamp.tag = "absent"
                 THEN Some(logger.showTimestamp) ELSE newOptions.timestamp,
   level |-> IF newOptions.level.tag = "absent"
             THEN Some(logger.currentLevel) ELSE newOptions.level,
   icons |-> IF newOptions.icons.tag = "absent"
             THEN Some(logger.showIcons) ELSE newOptions.icons]

\* logger.create(newOptions): the logger the call returns.
create(logger, newOptions) ==
  IF logger.create = "createLogger"
  THEN createLogger(newOptions)
  ELSE createLogger(Spread(logger, newOptions))

\* shouldLog(level) of a logger whose threshold is currentLevel.  LEVELS[key]
\* is a number only for an own key; for any other key it is undefined or an
\* inherited function, and >= with such an operand is false.
shouldLog(level, currentLevel) ==
  currentLevel \in LogLevel /\ LEVELS[level] >= LEVELS[currentLevel]

getLevel(logger) == logger.currentLevel

\* The message of the TypeError thrown by setLevel.
InvalidLevelMessage(level) ==
  <<"Invalid log level: \"", level, "\". Valid levels: ">>
  \o Join([i \in 1..Len(LEVEL_KEYS) |-> <<LEVEL_KEYS[i]>>], ", ")

\* ConsoleMethod choosing the stream by priority: priority 3 to console.error.
ConsoleMethodByPriority(level) ==
  IF LEVELS[level] = LEVELS["error"] THEN "error"
  ELSE IF level = "warn" THEN "warn" ELSE "log"

\* The console method log(level, ...) writes with.
ConsoleMethod(level) ==
  CASE level = "error" -> "error"
    [] level = "warn" -> "warn"
    [] OTHER -> "log"

\* Parts pushing the prefix before the timestamp.
PartsPrefixFirst(logger, level, message, now) ==
  (IF logger.showIcons THEN << <<ICONS[level]>> >> ELSE <<>>)
  \o (IF logger.prefix # ""
      THEN << <<LEVEL_COLORS[level], logger.prefix, COLORS.reset>> >>
      ELSE <<>>)
  \o (IF logger.showTimestamp
      THEN << <<COLORS.gray, "[", now, "]", COLORS.reset>> >>
      ELSE <<>>)
  \o << <<LEVEL_COLORS[level], "[", toUpperCase[level], "]", COLORS.reset>> >>
  \o <<message>>

\* The parts array of log(level, args) once every segment is pushed; message
\* is the text formatArgs returned and now the text of
\* new Date().toISOString().
Parts(logger, level, message, now) ==
  LET color == LEVEL_COLORS[level]
      icon == IF logger.showIcons THEN << <<ICONS[level]>> >> ELSE <<>>
      stamp == IF logger.showTimestamp
               THEN << <<COLORS.gray, "[", now, "]", COLORS.reset>> >>
               ELSE <<>>
      pre == IF logger.prefix # ""
             THEN << <<color, logger.prefix, COLORS.reset>> >>
             ELSE <<>>
      tag == << <<color, "[", toUpperCase[level], "]", COLORS.reset>> >>
  IN icon \o stamp \o pre \o tag \o <<message>>

\* The end of log(level, args) once formatArgs ended as f.
Write(logger, level, f, now) ==
  IF f.raised # "none"
  THEN [writes |-> <<>>, raised |-> f.raised]
  ELSE [writes |-> <<[method |-> ConsoleMethod(level),
                      output |-> Join(Parts(logger, level, f.t, now), " ")]>>,
        raised |-> "none"]

\* log(level, args): [writes: the console calls made, raised: the exception]
log(logger, level, args, now) ==
  IF ~shouldLog(level, logger.currentLevel)
  THEN [writes |-> <<>>, raised |-> "none"]
  ELSE Write(logger, level, formatArgs(args), now)

(***************************************************************************)
(* Inputs of the calls.  Each specification draws the options, the          *)
(* arguments of setLevel and the argument lists from its own sets.          *)
(***************************************************************************)
\* Arguments of setLevel: the five names, an unknown name, a name every
\* object inherits, the empty string.
LevelInputs == LogLevel \cup {"verbose", "toString", ""}

\* Options that set at most the level.
LevelOptions ==
  {[NoOptions EXCEPT !.level = l] :
     l \in {Absent(""), Undefined(""), NullValue("")}
           \cup {Some(n) : n \in LogLevel \cup {"verbose", ""}}}

\* Options over every field: absent, undefined, or a value.
FlagOptions == {Absent(FALSE), Undefined(FALSE), Some(TRUE), Some(FALSE)}

ConfigOptions ==
  [prefix : {Absent(""), Undefined(""), Some("[App]")},
   timestamp : FlagOptions,
   level : {Absent(""), Undefined(""), Some("warn")},
   icons : FlagOptions]

\* Arguments of setLevel in SpecCreate.
ConfigLevelInputs == {"error", "verbose"}

\* Readings of the clock at render time.
Clock == {"2024-01-15T10:30:00.000Z", "2024-01-15T10:30:00.001Z"}

\* new Date().toISOString() is evaluated only by a call that passes the
\* filter of a logger that shows timestamps.
ClockRead(logger, level) ==
  IF shouldLog(level, logger.currentLevel) /\ logger.showTimestamp
  THEN Clock ELSE {""}

SeqsUpTo(S, n) == UNION {[1..k -> S] : k \in 0..n}

\* Argument lists of the emit calls of Spec and SpecCreate: none, a string,
\* an invalid Date.
BasicArgLists == {<<>>, <<Str(<<"x">>)>>, <<Ref(18)>>}

\* Argument lists of SpecRepeat: a plain object and a circular object, each
\* once and as every argument of a longer list.
RepeatArgLists ==
  {[k \in 1..n |-> Ref(i)] : n \in 1..MaxArgs, i \in {1, 3}}

\* Argument lists of SpecFormat: every single value, and the lists of up to
\* MaxArgs values among a string, a number, a circular object and an invalid
\* Date.
Values ==
  {Str(<<"x">>), Str(<<>>), Num("123"), Bool("true"), BigInt("123"), Null,
   Undef} \cup {Ref(i) : i \in ObjectIds}

ListValues == {Str(<<"x">>), Num("123"), Ref(1), Ref(18)}

ArgLists == {<<v>> : v \in Values} \cup SeqsUpTo(ListValues, MaxArgs)

(***************************************************************************)
(* The calls.  last records the call; fields a call does not use keep the   *)
(* values of NoCall.                                                        *)
(***************************************************************************)
NoCall ==
  [op |-> "load", self |-> 0, level |-> "", options |-> NoOptions,
   args |-> <<>>, now |-> "", raised |-> "none", message |-> <<>>,
   ret |-> 0, child |-> defaultLogger, retLevel |-> ""]

Init ==
  /\ loggers = <<defaultLogger>>
  /\ last = NoCall
  /\ console = <<>>

\* create(options) of the module: the exported factory.
CreateLogger(options) ==
  /\ Len(loggers) < MaxLoggers
  /\ loggers' = Append(loggers, createLogger(options))
  /\ last' = [NoCall EXCEPT !.op = "createLogger", !.options = options,
                            !.ret = Len(loggers) + 1,
                            !.child = createLogger(options)]
  /\ console' = <<>>

\* loggers[self].create(newOptions).  The caller either retains the child
\* (while there is room) or drops it.
Create(self, newOptions, retain) ==
  /\ retain => Len(loggers) < MaxLoggers
  /\ loggers' = IF retain
                THEN Append(loggers, create(loggers[self], newOptions))
                ELSE loggers
  /\ last' = [NoCall EXCEPT !.op = "create", !.self = self,
                            !.options = newOptions,
                            !.ret = IF retain THEN Len(loggers) + 1 ELSE 0,
                            !.child = create(loggers[self], newOptions)]
  /\ console' = <<>>

\* setLevel validating the level without storing it.
SetLevelNotStored(self, level) ==
  /\ last' = [NoCall EXCEPT !.op = "setLevel", !.self = self, !.level = level,
                            !.raised = IF InLEVELS(level) THEN "none"
                                       ELSE "TypeError",
                            !.message = IF InLEVELS(level) THEN <<>>
                                        ELSE InvalidLevelMessage(level)]
  /\ console' = <<>>
  /\ UNCHANGED loggers

\* setLevel storing the level in one variable shared by every logger.
SetLevelShared(self, level) ==
  /\ IF ~InLEVELS(level)
     THEN /\ last' = [NoCall EXCEPT !.op = "setLevel", !.self = self,
                                    !.level = level, !.raised = "TypeError",
                                    !.message = InvalidLevelMessage(level)]
          /\ UNCHANGED loggers
     ELSE /\ loggers' = [i \in 1..Len(loggers) |->
                           [loggers[i] EXCEPT !.currentLevel = level]]
          /\ last' = [NoCall EXCEPT !.op = "setLevel", !.self = self,
                                    !.level = level]
  /\ console' = <<>>

\* loggers[self].setLevel(level)
SetLevel(self, level) ==
  /\ IF ~InLEVELS(level)
     THEN /\ last' = [NoCall EXCEPT !.op = "setLevel", !.self = self,
                                    !.level = level, !.raised = "TypeError",
                                    !.message = InvalidLevelMessage(level)]
          /\ UNCHANGED loggers
     ELSE /\ loggers' = [loggers EXCEPT ![self].currentLevel = level]
          /\ last' = [NoCall EXCEPT !.op = "setLevel", !.self = self,
                                    !.level = level]
  /\ console' = <<>>

\* loggers[self].getLevel()
GetLevel(self) ==
  /\ last' = [NoCall EXCEPT !.op = "getLevel", !.self = self,
                            !.retLevel = getLevel(loggers[self])]
  /\ console' = <<>>
  /\ UNCHANGED loggers

\* loggers[self].debug/info/warn/error/success(...args)
Emitted(self, level, args, now, r) ==
  /\ console' = r.writes
  /\ last' = [NoCall EXCEPT !.op = "emit", !.self = self, !.level = level,
                            !.args = args, !.now = now, !.raised = r.raised]
  /\ UNCHANGED loggers

Emit(self, level, args, now) ==
  Emitted(self, level, args, now, log(loggers[self], level, args, now))

Next ==
  \/ \E options \in LevelOptions : CreateLogger(options)
  \/ \E self \in 1..Len(loggers), newOptions \in LevelOptions,
        retain \in BOOLEAN :
       Create(self, newOptions, retain)
  \/ \E self \in 1..Len(loggers), level \in LevelInputs : SetLevel(self, level)
  \/ \E self \in 1..Len(loggers) : GetLevel(self)
  \/ \E self \in 1..Len(loggers), level \in LogLevel, args \in BasicArgLists :
       \E now \in ClockRead(loggers[self], level) :
         Emit(self, level, args, now)

\* The program under every threshold and every argument of setLevel.
Spec == Init /\ [][Next]_vars

\* The module is loaded and the caller has built one logger.
InitCreate ==
  /\ \E options \in ConfigOptions :
       loggers = <<defaultLogger, createLogger(options)>>
  /\ last = NoCall
  /\ console = <<>>

NextCreate ==
  \/ \E self \in 1..Len(loggers), newOptions \in ConfigOptions :
       Create(self, newOptions, FALSE)
  \/ \E self \in 1..Len(loggers), level \in ConfigLevelInputs :
       SetLevel(self, level)
  \/ \E self \in 1..Len(loggers) : GetLevel(self)

\* Child creation under every combination of option fields, on the default
\* logger and on a logger of any configuration.
SpecCreate == InitCreate /\ [][NextCreate]_vars

\* The default logger and one logger of any configuration the factory
\* builds, after any setLevel.
InitFormat ==
  /\ \E options \in ConfigOptions, level \in LevelInputs :
       loggers = <<defaultLogger,
                   IF InLEVELS(level)
                   THEN [createLogger(options) EXCEPT !.currentLevel = level]
                   ELSE createLogger(options)>>
  /\ last = NoCall
  /\ console = <<>>

\* The first call after the module is loaded and the logger built.
NextFormat ==
  \E self \in 1..Len(loggers), level \in LogLevel, args \in ArgLists :
    \E now \in ClockRead(loggers[self], level) :
      last.op = "load" /\ Emit(self, level, args, now)

\* One emit call, of every severity and with every kind of argument, on a
\* logger of every configuration.
SpecFormat == InitFormat /\ [][NextFormat]_vars

\* Options whose level is absent or one of the five names.
RecognizedLevelOptions ==
  {[NoOptions EXCEPT !.level = l] :
     l \in {Absent("")} \cup {Some(n) : n \in LogLevel}}

\* Loggers and children built with an absent or recognized level, and
\* setLevel with every argument.
NextLevels ==
  \/ \E options \in RecognizedLevelOptions : CreateLogger(options)
  \/ \E self \in 1..Len(loggers), newOptions \in RecognizedLevelOptions,
        retain \in BOOLEAN :
       Create(self, newOptions, retain)
  \/ \E self \in 1..Len(loggers), level \in LevelInputs : SetLevel(self, level)
  \/ \E self \in 1..Len(loggers) : GetLevel(self)

SpecLevels == Init /\ [][NextLevels]_vars

\* Emit calls that pass the same objects again and again.
NextRepeat ==
  \E self \in 1..Len(loggers), level \in LogLevel, args \in RepeatArgLists :
    \E now \in ClockRead(loggers[self], level) : Emit(self, level, args, now)

SpecRepeat == InitCreate /\ [][NextRepeat]_vars

\* The factory under every combination of option fields, followed by reads
\* of the threshold and emit calls.
NextFactory ==
  \/ \E options \in ConfigOptions : CreateLogger(options)
  \/ \E self \in 1..Len(loggers) : GetLevel(self)
  \/ \E self \in 1..Len(loggers), level \in LogLevel :
       \E now \in ClockRead(loggers[self], level) :
         Emit(self, level, <<Str(<<"x">>)>>, now)

SpecFactory == Init /\ [][NextFactory]_vars

(***************************************************************************)
(* The properties.  They are stated over the record of the last call and    *)
(* with tables of their own, not with the tables of the program.            *)
(***************************************************************************)
PriorityTable == [debug |-> 0, info |-> 1, warn |-> 2, error |-> 3, success |-> 3]

Severities == {"debug", "info", "warn", "error", "success"}

Contains(text, token) == \E i \in 1..Len(text) : text[i] = token

\* severity passes threshold under the priority table
Admits(threshold, severity) ==
  PriorityTable[severity] >= PriorityTable[threshold]

\* C1: for every severity S and every logger whose threshold T is one of the
\* five names, an emit call at S writes output iff priority(S) >= priority(T).
C1_EmitWritesIffPriority ==
  (last.op = "emit" /\ getLevel(loggers[last.self]) \in Severities)
    => ((console # <<>>) <=> Admits(getLevel(loggers[last.self]), last.level))

\* C1, for the calls that return normally: output iff priority(S) >=
\* priority(T); and a call that raises had passed the filter.
C1_EmitWritesIffPriorityUnlessRaised ==
  (last.op = "emit" /\ getLevel(loggers[last.self]) \in Severities)
    => /\ last.raised = "none" =>
            ((console # <<>>) <=>
               Admits(getLevel(loggers[last.self]), last.level))
       /\ last.raised # "none" =>
            Admits(getLevel(loggers[last.self]), last.level)

\* an emit call at threshold error admits success, at threshold success admits
\* error, and both reject warn
C1_Witness ==
  /\ last.op = "emit"
  /\ getLevel(loggers[last.self]) = "error"
  /\ last.level = "success"
  /\ Len(console) = 1

\* C2: setLevel(L) with L one of the five names succeeds on a logger in any
\* state; the next getLevel() on that logger returns L, and the next emit call
\* on it is filtered by L: it writes only if L admits its severity, and a
\* severity L admits is not filtered out.
C2_SetLevelTakesEffect ==
  [][(last'.op = "setLevel" /\ last'.level \in Severities
        => /\ last'.raised = "none"
           /\ getLevel(loggers'[last'.self]) = last'.level)
     /\ (last.op = "setLevel" /\ last.level \in Severities
         /\ last'.self = last.self
           => /\ last'.op = "getLevel" => last'.retLevel = last.level
              /\ last'.op = "emit" =>
                   /\ console' # <<>> => Admits(last.level, last'.level)
                   /\ Admits(last.level, last'.level) =>
                        (console' # <<>> \/ last'.raised # "none")
                   /\ ~Admits(last.level, last'.level) =>
                        last'.raised = "none")]_vars

\* setLevel('success') has succeeded on the second logger, whose threshold is
\* now success
C2_Witness ==
  /\ last.op = "setLevel"
  /\ last.level = "success"
  /\ last.raised = "none"
  /\ last.self = 2
  /\ getLevel(loggers[2]) = "success"

\* C3: setLevel with a value that is not one of the five names raises a
\* TypeError whose message names the value and lists the valid names, and
\* getLevel() returns the same value as before the call.
C3_InvalidLevelRejected ==
  [][(last'.op = "setLevel" /\ last'.level \notin Severities)
       => /\ last'.raised = "TypeError"
          /\ Contains(last'.message, last'.level)
          /\ \A n \in Severities : Contains(last'.message, n)
          /\ getLevel(loggers'[last'.self]) = getLevel(loggers[last'.self])]_vars

\* C3, for the values that are not a property of any object: they are
\* rejected as the claim says.
C3_UnknownNameRejected ==
  [][(last'.op = "setLevel" /\ last'.level \in {"verbose", ""})
       => /\ last'.raised = "TypeError"
          /\ Contains(last'.message, last'.level)
          /\ \A n \in Severities : Contains(last'.message, n)
          /\ getLevel(loggers'[last'.self]) = getLevel(loggers[last'.self])]_vars

(***************************************************************************)
(* Child creation.  Parent is the receiver of the create call, as it was    *)
(* before the call.                                                         *)
(***************************************************************************)
SameConfig(a, b) ==
  /\ a.prefix = b.prefix
  /\ a.showTimestamp = b.showTimestamp
  /\ a.showIcons = b.showIcons
  /\ getLevel(a) = getLevel(b)

\* C4: a child created by create() with no overrides has the parent's prefix,
\* timestamp flag, icon flag and the parent's current threshold.
C4_ChildInheritsCurrent ==
  [][(last'.op = "create" /\ last'.options = NoOptions)
       => SameConfig(last'.child, loggers[last'.self])]_vars

\* C4, for every logger whose create is the method createLogger gave it.
C4_ChildOfFactoryLoggerInherits ==
  [][(last'.op = "create" /\ last'.options = NoOptions
      /\ loggers[last'.self].create = "closure")
       => SameConfig(last'.child, loggers[last'.self])]_vars

\* a child was created with no overrides from a logger that is not the
\* default logger, whose threshold was set to error after construction and
\* whose prefix and flags are not the defaults
C4_Witness ==
  /\ last.op = "create"
  /\ last.options = NoOptions
  /\ last.self = 2
  /\ loggers[2].prefix = "[App]"
  /\ loggers[2].showTimestamp
  /\ ~loggers[2].showIcons
  /\ getLevel(loggers[2]) = "error"
  /\ SameConfig(last.child, loggers[2])

\* The value a child has for a field: the override's when the options set it
\* to a value, the parent's when the options do not hold the field.
FieldFollows(field, childValue, parentValue) ==
  /\ field.tag = "value" => childValue = field.v
  /\ field.tag = "absent" => childValue = parentValue

\* C5: a child created by create(overrides) takes the override's value for
\* each field the overrides set and the parent's current value for each field
\* they do not set; creating the child leaves the parent unchanged.
C5_OverridesTakePrecedence ==
  [][last'.op = "create"
       => /\ FieldFollows(last'.options.prefix, last'.child.prefix,
                          loggers[last'.self].prefix)
          /\ FieldFollows(last'.options.timestamp, last'.child.showTimestamp,
                          loggers[last'.self].showTimestamp)
          /\ FieldFollows(last'.options.icons, last'.child.showIcons,
                          loggers[last'.self].showIcons)
          /\ FieldFollows(last'.options.level, getLevel(last'.child),
                          getLevel(loggers[last'.self]))
          /\ loggers'[last'.self] = loggers[last'.self]]_vars

\* C5, for every logger whose create is the method createLogger gave it.
C5_OverridesOfFactoryLogger ==
  [][(last'.op = "create" /\ loggers[last'.self].create = "closure")
       => /\ FieldFollows(last'.options.prefix, last'.child.prefix,
                          loggers[last'.self].prefix)
          /\ FieldFollows(last'.options.timestamp, last'.child.showTimestamp,
                          loggers[last'.self].showTimestamp)
          /\ FieldFollows(last'.options.icons, last'.child.showIcons,
                          loggers[last'.self].showIcons)
          /\ FieldFollows(last'.options.level, getLevel(last'.child),
                          getLevel(loggers[last'.self]))
          /\ loggers'[last'.self] = loggers[last'.self]]_vars

\* C6: a step changes no logger, except that a successful setLevel replaces
\* the threshold of its receiver by its argument; no logger disappears; and
\* two consecutive getLevel calls on a logger return the same value.
C6_LoggersIndependent ==
  [][/\ Len(loggers') >= Len(loggers)
     /\ \A i \in 1..Len(loggers) :
          \/ loggers'[i] = loggers[i]
          \/ /\ last'.op = "setLevel"
             /\ last'.self = i
             /\ last'.raised = "none"
             /\ loggers'[i] = [loggers[i] EXCEPT !.currentLevel = last'.level]
     /\ (last.op = "getLevel" /\ last'.op = "getLevel"
         /\ last'.self = last.self) => last'.retLevel = last.retLevel]_vars

\* setLevel has changed the threshold of the second logger to warn, and the
\* default logger keeps the threshold error it was set to
C6_Witness ==
  /\ Len(loggers) = 2
  /\ last.op = "setLevel"
  /\ last.raised = "none"
  /\ last.self = 2
  /\ getLevel(loggers[2]) = "warn"
  /\ getLevel(loggers[1]) = "error"

(***************************************************************************)
(* Writing and rendering.                                                   *)
(***************************************************************************)
StreamOf ==
  [debug |-> "log", info |-> "log", warn |-> "warn", error |-> "error",
   success |-> "log"]

\* C7: every write of an emit call goes to the stream of its severity: error
\* to console.error, warn to console.warn, debug, info and success to
\* console.log.
C7_StreamBySeverity ==
  last.op = "emit"
    => \A i \in 1..Len(console) : console[i].method = StreamOf[last.level]

\* a success message was written to console.log by a logger whose threshold
\* is error
C7_Witness ==
  /\ last.op = "emit"
  /\ last.level = "success"
  /\ getLevel(loggers[last.self]) = "error"
  /\ Len(console) = 1
  /\ console[1].method = "log"

\* C8: an emit call that passes the threshold performs exactly one write; an
\* emit call below the threshold performs no write; neither changes a logger.
C8_OneWriteOrNone ==
  [][(last'.op = "emit" /\ getLevel(loggers[last'.self]) \in Severities)
       => /\ Admits(getLevel(loggers[last'.self]), last'.level)
               => Len(console') = 1
          /\ ~Admits(getLevel(loggers[last'.self]), last'.level)
               => (console' = <<>> /\ last'.raised = "none")
          /\ loggers' = loggers]_vars

\* C8, for the calls that return normally.
C8_OneWriteOrNoneUnlessRaised ==
  [][(last'.op = "emit" /\ getLevel(loggers[last'.self]) \in Severities)
       => /\ (Admits(getLevel(loggers[last'.self]), last'.level)
              /\ last'.raised = "none")
               => Len(console') = 1
          /\ last'.raised # "none" => console' = <<>>
          /\ ~Admits(getLevel(loggers[last'.self]), last'.level)
               => (console' = <<>> /\ last'.raised = "none")
          /\ loggers' = loggers]_vars

UpperName ==
  [debug |-> "DEBUG", info |-> "INFO", warn |-> "WARN", error |-> "ERROR",
   success |-> "SUCCESS"]

\* The text of one argument: a string as it is, any other value as
\* safeStringify converts it.
ArgText(arg) == IF arg.kind = "string" THEN arg.text ELSE safeStringify(arg).t

\* The argument texts from the i-th on, a single space between two of them.
RECURSIVE MessageFrom(_, _)
MessageFrom(args, i) ==
  IF i > Len(args) THEN <<>>
  ELSE IF i = Len(args) THEN ArgText(args[i])
  ELSE ArgText(args[i]) \o <<" ">> \o MessageFrom(args, i + 1)

\* The line of a message: each segment that is present, followed by a space,
\* then the message.
ExpectedLine(logger, level, now, args) ==
  (IF logger.showIcons THEN <<ICONS[level], " ">> ELSE <<>>)
  \o (IF logger.showTimestamp
      THEN <<COLORS.gray, "[", now, "]", COLORS.reset, " ">> ELSE <<>>)
  \o (IF logger.prefix # ""
      THEN <<LEVEL_COLORS[level], logger.prefix, COLORS.reset, " ">>
      ELSE <<>>)
  \o <<LEVEL_COLORS[level], "[", UpperName[level], "]", COLORS.reset, " ">>
  \o MessageFrom(args, 1)

\* C9: the output written is the space-joined sequence icon, timestamp,
\* prefix, level tag, message, with the icon present iff icons are enabled,
\* the timestamp iff the timestamp flag is on, the prefix iff it is not empty,
\* the tag always, and the message the argument texts joined by spaces.
C9_RenderedLine ==
  last.op = "emit"
    => \A i \in 1..Len(console) :
         console[i].output =
           ExpectedLine(loggers[last.self], last.level, last.now, last.args)

\* a line was written with icon, timestamp and prefix for a string and an
\* object
C9_Witness ==
  /\ last.op = "emit"
  /\ Len(console) = 1
  /\ loggers[last.self].showIcons
  /\ loggers[last.self].showTimestamp
  /\ loggers[last.self].prefix = "[App]"
  /\ last.level = "info"
  /\ last.args = <<Str(<<"x">>), Ref(1)>>

\* a line was written without icon, timestamp and prefix for no argument
C9_WitnessBare ==
  /\ last.op = "emit"
  /\ Len(console) = 1
  /\ ~loggers[last.self].showIcons
  /\ ~loggers[last.self].showTimestamp
  /\ loggers[last.self].prefix = ""
  /\ last.args = <<>>

\* The objects a plain object or array refers to in its properties.
Children(i) ==
  {HEAP[i].props[k].val.id :
     k \in {k \in 1..Len(HEAP[i].props) : HEAP[i].props[k].val.kind = "object"}}

PlainIds == {i \in ObjectIds : HEAP[i].class \in {"Object", "Array"}}

\* The plain objects and arrays reached from the set S in at most n steps
\* through plain objects and arrays.
RECURSIVE ReachedFrom(_, _)
ReachedFrom(S, n) ==
  IF n = 0 THEN S
  ELSE ReachedFrom(S \cup (UNION {Children(i) : i \in S} \cap PlainIds), n - 1)

\* i is a plain object or array that contains a reference to itself,
\* directly or through nested objects.
ContainsItself(i) ==
  /\ i \in PlainIds
  /\ i \in ReachedFrom(Children(i) \cap PlainIds, Len(HEAP))

IsPlainOrPrimitive(arg) == arg.kind = "object" => arg.id \in PlainIds

\* C10: an emit call whose arguments are primitives, plain objects and
\* arrays, one of which contains a reference to itself, returns without
\* raising, and the text it writes when it passes the filter contains the
\* marker [Circular].
C10_CircularMarker ==
  (/\ last.op = "emit"
   /\ \A k \in 1..Len(last.args) : IsPlainOrPrimitive(last.args[k])
   /\ \E k \in 1..Len(last.args) :
        last.args[k].kind = "object" /\ ContainsItself(last.args[k].id))
    => /\ last.raised = "none"
       /\ shouldLog(last.level, getLevel(loggers[last.self]))
            => /\ Len(console) = 1
               /\ Contains(console[1].output, "[Circular]")

\* the object of a cycle through a nested array was written
C10_Witness ==
  /\ last.op = "emit"
  /\ last.args = <<Ref(5)>>
  /\ ContainsItself(5)
  /\ Len(console) = 1
  /\ Contains(console[1].output, "[Circular]")

\* C11: every emit call returns normally, whatever the threshold and the
\* kinds of its arguments.
C11_EmitNeverRaises == last.op = "emit" => last.raised = "none"

\* C11, for the conversion the code guards: an emit call whose arguments are
\* primitives, plain objects and arrays returns normally, and an object whose
\* JSON conversion fails is written in its plain textual form.
C11_GuardedConversionCaught ==
  (/\ last.op = "emit"
   /\ \A k \in 1..Len(last.args) : IsPlainOrPrimitive(last.args[k]))
    => /\ last.raised = "none"
       /\ (last.args = <<Ref(20)>> /\ Len(console) = 1)
            => Contains(console[1].output, "[object Object]")

\* an Error holding itself was logged at a severity that passes the threshold
C11_Witness ==
  /\ last.op = "emit"
  /\ last.args = <<Ref(10)>>
  /\ shouldLog(last.level, getLevel(loggers[last.self]))

(***************************************************************************)
(* The texts of the values, written out as JSON.stringify with an indent of *)
(* two spaces prints them.                                                  *)
(***************************************************************************)
Text(s) == <<"\"", s, "\"">>

\* "key": value, one level deep
Pair(k, v) == <<"  ", "\"", k, "\"", ": ">> \o v

\* element of an array, one level deep
Elem(v) == <<"  ">> \o v

RECURSIVE JoinLines(_)
JoinLines(members) ==
  IF Len(members) = 1 THEN members[1]
  ELSE members[1] \o <<",", "\n">> \o JoinLines(Tail(members))

Block(open, members, close) ==
  <<open, "\n">> \o JoinLines(members) \o <<"\n", close>>

\* The values whose text the conversion rules determine, one list per rule.
Tabulated ==
  {Null, Undef, Num("123"), Bool("true"), BigInt("123"), Ref(1), Ref(3),
   Ref(4), Ref(8), Ref(9), Ref(12), Ref(14), Ref(16), Ref(17), Ref(19),
   Ref(20), Ref(21)}

ExpectedText(v) ==
  CASE v = Null -> <<"null">>
    [] v = Undef -> <<"undefined">>
    [] v = Num("123") -> <<"123">>
    [] v = Bool("true") -> <<"true">>
    [] v = BigInt("123") -> <<"123", "n">>
    [] v = Ref(1) ->
         Block("{", <<Pair("name", Text("test")),
                      Pair("self", Text("[Circular]"))>>, "}")
    [] v = Ref(3) -> Block("{", <<Pair("key", Text("value"))>>, "}")
    [] v = Ref(4) -> Block("[", <<Elem(<<"1">>), Elem(Text("[Circular]"))>>, "]")
    [] v = Ref(8) ->
         Block("{", <<Pair("big", <<"\"", "1", "n", "\"">>),
                      Pair("n", <<"123">>),
                      Pair("d", <<"\"", "2024-01-15", "T10:30:00.000Z",
                                  "\"">>)>>, "}")
    [] v = Ref(9) ->
         Block("{", <<Pair("name", Text("Error")),
                      Pair("message", Text("boom")),
                      Pair("stack", Text("Error: boom at <anonymous>")),
                      Pair("code", Text("E1"))>>, "}")
    [] v = Ref(12) ->
         <<"Map(", "1", ") ">> \o Block("{", <<Pair("key", Text("value"))>>, "}")
    [] v = Ref(14) ->
         <<"Set(", "3", ") ">>
         \o Block("[", <<Elem(<<"1">>), Elem(<<"2">>), Elem(<<"3">>)>>, "]")
    [] v = Ref(16) -> <<"/", "test[a-z]+", "/", "gi">>
    [] v = Ref(17) -> <<"2024-01-15", "T10:30:00.000Z">>
    [] v = Ref(19) -> <<"{", "}">>
    [] v = Ref(20) -> <<"[object Object]">>
    [] v = Ref(21) ->
         Block("{", <<Pair("name", Text("Error")),
                      Pair("message", Text("bare"))>>, "}")

\* C12: a non-string argument is converted by its kind: null and undefined
\* to their names, an Error to the JSON object of name, message, stack when
\* present and its own properties, a Map to Map(size) and the JSON object of
\* its entries, a Set to Set(size) and the JSON array of its members, a
\* RegExp to /source/flags, a Date to its ISO text, any other object to
\* guarded pretty-printed JSON, a big integer to its digits and n, any other
\* value to its default text.
C12_ConvertedByKind ==
  (/\ last.op = "emit"
   /\ Len(last.args) = 1
   /\ last.args[1] \in Tabulated
   /\ shouldLog(last.level, getLevel(loggers[last.self])))
    => /\ last.raised = "none"
       /\ Len(console) = 1
       /\ console[1].output =
            ExpectedLine(loggers[last.self], last.level, last.now,
                         <<Str(ExpectedText(last.args[1]))>>)

\* the Error with message boom and code E1 was written
C12_Witness ==
  /\ last.op = "emit"
  /\ last.args = <<Ref(9)>>
  /\ Len(console) = 1
  /\ Contains(console[1].output, "boom")
  /\ Contains(console[1].output, "E1")

\* The configuration the factory gives when no option is supplied.
AllDefaults == [showIcons |-> TRUE, showTimestamp |-> FALSE, prefix |-> ""]

\* C13: the factory gives every option that is not supplied its default
\* (threshold debug, empty prefix, timestamp off, icons on); the logger of
\* create() with no options answers getLevel() with debug and writes, at every
\* severity, a line with the icon and without timestamp and prefix.
C13_FactoryDefaults ==
  [][/\ last'.op = "createLogger"
        => /\ last'.raised = "none"
           /\ loggers'[last'.ret] = last'.child
           /\ last'.options.level.tag = "absent"
                => getLevel(last'.child) = "debug"
           /\ last'.options.prefix.tag = "absent" => last'.child.prefix = ""
           /\ last'.options.timestamp.tag = "absent"
                => ~last'.child.showTimestamp
           /\ last'.options.icons.tag = "absent" => last'.child.showIcons
     /\ (/\ last.op = "createLogger"
         /\ last.options = NoOptions
         /\ last'.self = last.ret)
        => /\ last'.op = "getLevel" => last'.retLevel = "debug"
           /\ last'.op = "emit"
                => /\ last'.raised = "none"
                   /\ Len(console') = 1
                   /\ console'[1].output =
                        ExpectedLine(AllDefaults, last'.level, last'.now,
                                     last'.args)]_vars

\* the factory was called with a prefix only and returned a logger with the
\* other three defaults
C13_Witness ==
  /\ last.op = "createLogger"
  /\ last.options = [NoOptions EXCEPT !.prefix = Some("[App]")]
  /\ last.child.prefix = "[App]"
  /\ getLevel(last.child) = "debug"
  /\ ~last.child.showTimestamp
  /\ last.child.showIcons

\* C14: the default logger honours the contract of a factory logger: after
\* setLevel(L) on it, its create() with no overrides returns a child whose
\* getLevel() is L.
C14_DefaultLoggerChildInherits ==
  [][(/\ last'.op = "create"
      /\ last'.self = 1
      /\ last'.options = NoOptions
      /\ getLevel(loggers[1]) \in Severities)
       => getLevel(last'.child) = getLevel(loggers[1])]_vars

\* C14, for the operations other than create: setLevel, getLevel and the emit
\* calls of the default logger do what those of a factory logger with the
\* same configuration and threshold do.
C14_DefaultLoggerOtherOperations ==
  [][last'.self = 1
       => /\ (last'.op = "setLevel" /\ last'.level \in Severities)
               => getLevel(loggers'[1]) = last'.level
          /\ last'.op = "getLevel" => last'.retLevel = getLevel(loggers[1])
          /\ last'.op = "emit"
               => [writes |-> console', raised |-> last'.raised] =
                    log([loggers[1] EXCEPT !.create = "closure"], last'.level,
                        last'.args, last'.now)]_vars

\* create() with no overrides was called on the default logger after its
\* threshold was set to error
C14_Witness ==
  /\ last.op = "create"
  /\ last.self = 1
  /\ last.options = NoOptions
  /\ getLevel(loggers[1]) = "error"

\* getLevel() answers a string; it is the value supplied in field only if
\* field holds a value other than undefined and null and the two are equal.
Verbatim(field, result) == field.tag = "value" /\ result = field.v

\* C15: the factory called with a level value that is not one of the five
\* names returns a logger without raising, and getLevel() on that logger
\* returns the supplied value verbatim.
C15_LevelAcceptedVerbatim ==
  [][(/\ last'.op = "createLogger"
      /\ last'.options.level.tag # "absent"
      /\ ~(last'.options.level.tag = "value"
           /\ last'.options.level.v \in Severities))
       => /\ last'.raised = "none"
          /\ loggers'[last'.ret] = last'.child
          /\ Verbatim(last'.options.level, getLevel(last'.child))]_vars

\* C15, amended: the factory called with a level value that is neither
\* undefined nor null and not one of the five names returns a logger without
\* raising, and getLevel() on that logger returns the supplied value verbatim.
C15_ValueAcceptedVerbatim ==
  [][(/\ last'.op = "createLogger"
      /\ last'.options.level.tag = "value"
      /\ last'.options.level.v \notin Severities)
       => /\ last'.raised = "none"
          /\ loggers'[last'.ret] = last'.child
          /\ Verbatim(last'.options.level, getLevel(last'.child))]_vars

\* the factory was called with the level verbose and returned a logger whose
\* threshold is verbose
C15_Witness ==
  /\ last.op = "createLogger"
  /\ last.options.level = Some("verbose")
  /\ getLevel(loggers[last.ret]) = "verbose"

\* C16: the text of an argument depends only on that argument: an object
\* passed as several arguments of one emit call, after any earlier calls with
\* the same object, is written each time as it is written alone, and a plain
\* object without a cycle never shows the marker [Circular].
C16_GuardPerArgument ==
  [][(/\ last'.op = "emit"
      /\ Len(last'.args) >= 1
      /\ \A k \in 1..Len(last'.args) :
           last'.args[k] \in {Ref(1), Ref(3)} /\ last'.args[k] = last'.args[1]
      /\ shouldLog(last'.level, getLevel(loggers[last'.self])))
       => /\ last'.raised = "none"
          /\ Len(console') = 1
          /\ last'.args[1] = Ref(3)
               => ~Contains(console'[1].output, "[Circular]")
          /\ console'[1].output =
               ExpectedLine(loggers[last'.self], last'.level, last'.now,
                            [k \in 1..Len(last'.args) |->
                               Str(ExpectedText(last'.args[k]))])]_vars

\* the object {key: 'value'} was written twice by one emit call
C16_Witness ==
  /\ last.op = "emit"
  /\ last.args = <<Ref(3), Ref(3)>>
  /\ Len(console) = 1
  /\ ~Contains(console[1].output, "[Circular]")

\* The properties of the object i that refer to a plain object or an array.
NestedRefs(i) ==
  {k \in 1..Len(HEAP[i].props) :
     HEAP[i].props[k].val.kind = "object"
     /\ HEAP[i].props[k].val.id \in PlainIds}

\* The number of such properties in the objects of S with an id up to i.
RECURSIVE RefCount(_, _)
RefCount(S, i) ==
  IF i = 0 THEN 0
  ELSE (IF i \in S THEN Cardinality(NestedRefs(i)) ELSE 0) + RefCount(S, i - 1)

\* A pass over the object root meets every reference held by an object it
\* reaches; the first meeting of each object but the root visits it, every
\* other meeting finds an object already visited.
Revisits(root) ==
  RefCount(ReachedFrom({root}, Len(HEAP)), Len(HEAP))
  - (Cardinality(ReachedFrom({root}, Len(HEAP))) - 1)

Count(text, token) == Cardinality({i \in 1..Len(text) : text[i] = token})

\* {a: x, b: x} with x = {key: 'value'}
SharedText ==
  <<"{", "\n",
    "  ", "\"", "a", "\"", ": ", "{", "\n",
    "  ", "  ", "\"", "key", "\"", ": ", "\"", "value", "\"", "\n",
    "  ", "}", ",", "\n",
    "  ", "\"", "b", "\"", ": ", "\"", "[Circular]", "\"", "\n",
    "}">>

\* C17: in the text of a plain object or array the marker [Circular] stands
\* exactly where a reference is met that the pass has already visited; the
\* second occurrence of x in {a: x, b: x} is written as the marker, the first
\* as the contents of x.
C17_MarkerWhenRevisited ==
  (/\ last.op = "emit"
   /\ Len(last.args) = 1
   /\ last.args[1].kind = "object"
   /\ last.args[1].id \in PlainIds
   /\ ~HEAP[last.args[1].id].toJSONThrows
   /\ shouldLog(last.level, getLevel(loggers[last.self])))
    => /\ Len(console) = 1
       /\ Count(console[1].output, "[Circular]") = Revisits(last.args[1].id)
       /\ last.args[1] = Ref(2)
            => console[1].output =
                 ExpectedLine(loggers[last.self], last.level, last.now,
                              <<Str(SharedText)>>)

\* the object {a: x, b: x} was written with one marker
C17_Witness ==
  /\ last.op = "emit"
  /\ last.args = <<Ref(2)>>
  /\ Len(console) = 1
  /\ Count(console[1].output, "[Circular]") = 1
  /\ Revisits(2) = 1

\* C18: for loggers and children built with an absent or recognized level,
\* after any setLevel calls with arbitrary arguments, getLevel() is one of
\* debug, info, warn, error, success.
C18_LevelAlwaysRecognized ==
  /\ \A i \in 1..Len(loggers) : getLevel(loggers[i]) \in Severities
  /\ last.op = "getLevel" => last.retLevel \in Severities

\* C18, one step at a time and without the names LEVELS inherits: a call
\* other than setLevel with such a name keeps every threshold one of the five.
C18_RecognizedUnlessInheritedKey ==
  [][(/\ \A i \in 1..Len(loggers) : getLevel(loggers[i]) \in Severities
      /\ ~(last'.op = "setLevel" /\ last'.level \in ObjectPrototypeKeys))
       => \A i \in 1..Len(loggers') : getLevel(loggers'[i]) \in Severities]_vars

\* setLevel was called with an unknown name and was rejected, on a child
\* whose threshold is warn
C18_Witness ==
  /\ last.op = "setLevel"
  /\ last.level = "verbose"
  /\ last.raised = "TypeError"
  /\ last.self = 2
  /\ getLevel(loggers[2]) = "warn"

\* C19: a field of the overrides of instance.create that is present with the
\* value undefined does not inherit: the child has the construction default
\* for it (threshold debug, empty prefix, timestamp off, icons on).
C19_UndefinedOverrideTakesDefault ==
  [][last'.op = "create"
       => /\ last'.options.level.tag = "undefined"
               => getLevel(last'.child) = "debug"
          /\ last'.options.prefix.tag = "undefined" => last'.child.prefix = ""
          /\ last'.options.timestamp.tag = "undefined"
               => ~last'.child.showTimestamp
          /\ last'.options.icons.tag = "undefined"
               => last'.child.showIcons]_vars

\* a logger with prefix [App], timestamps on, icons off and threshold error
\* returned, for overrides holding undefined in every field, a child with the
\* four defaults
C19_Witness ==
  /\ last.op = "create"
  /\ last.self = 2
  /\ loggers[2].create = "closure"
  /\ getLevel(loggers[2]) = "error"
  /\ loggers[2].prefix = "[App]"
  /\ loggers[2].showTimestamp
  /\ ~loggers[2].showIcons
  /\ \A f \in {"level", "prefix", "timestamp", "icons"} :
       last.options[f].tag = "undefined"
  /\ getLevel(last.child) = "debug"
  /\ last.child.prefix = ""
  /\ ~last.child.showTimestamp
  /\ last.child.showIcons

====
